---- MODULE Spec2Model ----
(***************************************************************************)
(* A model of the Durak engine (lib/engine/game.ts): the card codec, the   *)
(* player records, the table top, the ring of active players and the       *)
(* mutators of the Game class, with the exceptions they throw and the      *)
(* state they leave behind when they throw.                                *)
(***************************************************************************)
EXTENDS Integers, Sequences, FiniteSets, TLC

(***************************************************************************)
(* Generic sequence helpers (JavaScript array operations).                 *)
(***************************************************************************)
Range(s) == {s[i] : i \in DOMAIN s}

Includes(s, x) == \E i \in DOMAIN s : s[i] = x

\* Array.prototype.indexOf, 1-based; 0 when absent (JavaScript's -1).
IndexOf(s, x) == IF Includes(s, x) THEN CHOOSE i \in DOMAIN s : s[i] = x /\ \A j \in 1..(i - 1) : s[j] # x ELSE 0

\* Array.prototype.filter(c => c !== x)
RECURSIVE RemoveAll(_, _)
RemoveAll(s, x) == IF s = <<>> THEN <<>> ELSE IF Head(s) = x THEN RemoveAll(Tail(s), x) ELSE <<Head(s)>> \o RemoveAll(Tail(s), x)

\* Array.prototype.splice(indexOf(x), 1)
RemoveFirst(s, x) == LET i == IndexOf(s, x) IN IF i = 0 THEN s ELSE SubSeq(s, 1, i - 1) \o SubSeq(s, i + 1, Len(s))

Min(a, b) == IF a < b THEN a ELSE b

\* JavaScript's %: the result takes the sign of the dividend.
JsRem(a, b) == IF a >= 0 THEN a % b ELSE 0 - ((0 - a) % b)

(***************************************************************************)
(* Card codec.                                                             *)
(***************************************************************************)
CardNumerics == <<"2", "3", "4", "5", "6", "7", "8", "9", "10", "J", "Q", "K", "A">>

CardSuits == <<"H", "D", "C", "S">>

\* CardNumerics.map(label => suits.map(suit => label + suit)).flat()
generateCardDeck == [i \in 1..(Len(CardNumerics) * Len(CardSuits)) |-> CardNumerics[((i - 1) \div Len(CardSuits)) + 1] \o CardSuits[((i - 1) % Len(CardSuits)) + 1]]

ErrCardSuit == "Invalid card suit."

ErrCardNumeric == "Invalid card numeric."

\* parseCard giving the position of the numeric in CardNumerics, counted from one.
parseCardFromOne(card) ==
    LET suit == IF card = "" THEN "" ELSE SubSeq(card, Len(card), Len(card))
        rawNumeric == SubSeq(card, 1, Len(card) - 1)
    IN  IF ~Includes(CardSuits, suit) THEN [err |-> ErrCardSuit, value |-> 0, suit |-> suit, card |-> card]
        ELSE IF ~Includes(CardNumerics, rawNumeric) THEN [err |-> ErrCardNumeric, value |-> 0, suit |-> suit, card |-> card]
        ELSE [err |-> "", value |-> IndexOf(CardNumerics, rawNumeric), suit |-> suit, card |-> card]

\* The suit is the last character, the numeric what precedes it; substring
\* gives the empty string for both on an empty label.
parseCard(card) ==
    LET suit == IF card = "" THEN "" ELSE SubSeq(card, Len(card), Len(card))
        rawNumeric == SubSeq(card, 1, Len(card) - 1)
    IN  IF ~Includes(CardSuits, suit) THEN [err |-> ErrCardSuit, value |-> 0, suit |-> suit, card |-> card]
        ELSE IF ~Includes(CardNumerics, rawNumeric) THEN [err |-> ErrCardNumeric, value |-> 0, suit |-> suit, card |-> card]
        ELSE [err |-> "", value |-> IndexOf(CardNumerics, rawNumeric) + 1, suit |-> suit, card |-> card]

(***************************************************************************)
(* Player records and the values JavaScript gives for "nothing".           *)
(***************************************************************************)
\* A table entry that is not covered (null).
Null == "null"

\* The result of a lookup that found nothing (undefined).
Undefined == "undefined"

\* Player.out before elimination (null); Date.now() is always positive.
NotOut == 0

NewPlayer(name) == [name |-> name, deck |-> <<>>, canAttack |-> FALSE, beganRound |-> FALSE, turned |-> FALSE, isDefending |-> FALSE, out |-> NotOut]

addCard(player, card) == [player EXCEPT !.deck = Append(@, card)]

(***************************************************************************)
(* Error messages of the engine.                                           *)
(***************************************************************************)
Ok == ""

ErrVictory == "Can't mutate game state after victory."

ErrTooManyPlayers == "Number of players cannot be greater than eight."

ErrNoPlayers == "Number of players must be a positive integer."

ErrDuplicateNames == "Player names must be unique."

ErrNotFinalisable == "Cannot finalise round before any cards have been played."

ErrTableFull == "Player deck already full."

ErrNotHeld == "Player doesn't hold current card"

ErrRankMismatch == "Card numerical value isn't present on the table top."

ErrTransferCovered == "Player can't transfer defense since they have covered a card."

ErrTransferCards == "Player doesn't have enough cards to cover attack."

ErrTransferRank == "Improper card for the transfer of defense state to next player."

ErrDefenderCard == "Defending card is not present in the defending players deck."

ErrCoverValue == "Covering card must have a higher value."

ErrCoverSuit == "Covering card suit must be the same suit as the table card and have a higher numerical value."

ErrNothingPlaced == "Cannot finalise turn when no cards have been placed."

ErrInvalidState == "Invalid game state."

ErrNoRoundStarter == "Invalid game state"

ErrNotInLobby == "Player doesn't exist within the lobby."

ErrPosition == "Can't get table top card at position"

\* The outcome of a call: the state it leaves and the error it threw (Ok: none).
Return(g) == [st |-> g, err |-> Ok]

Throw(g, e) == [st |-> g, err |-> e]

(***************************************************************************)
(* Game: queries.  A game is a record                                      *)
(*   players  : the Map of players in insertion (seating) order            *)
(*   tableTop : the Map of the table in insertion order, card -> cover     *)
(*   deck, trumpCard, victory                                              *)
(***************************************************************************)
DeckSize == 6

PlayerNames(g) == [i \in DOMAIN g.players |-> g.players[i].name]

HasPlayer(g, name) == \E i \in DOMAIN g.players : g.players[i].name = name

PlayerIndex(g, name) == CHOOSE i \in DOMAIN g.players : g.players[i].name = name

\* getPlayer of a name that HasPlayer; the callers throw ErrInvalidState otherwise.
getPlayer(g, name) == g.players[PlayerIndex(g, name)]

SetPlayer(g, name, p) == [g EXCEPT !.players[PlayerIndex(g, name)] = p]

getActivePlayers(g) == SelectSeq(g.players, LAMBDA p : p.out = NotOut)

ActiveNames(g) == LET a == getActivePlayers(g) IN [i \in DOMAIN a |-> a[i].name]

\* The name found, or Undefined (the callers throw).
getDefendingPlayerName(g) == IF \E i \in DOMAIN g.players : g.players[i].isDefending THEN g.players[CHOOSE i \in DOMAIN g.players : g.players[i].isDefending /\ \A j \in 1..(i - 1) : ~g.players[j].isDefending].name ELSE Undefined

getRoundStarter(g) == IF \E i \in DOMAIN g.players : g.players[i].beganRound THEN g.players[CHOOSE i \in DOMAIN g.players : g.players[i].beganRound /\ \A j \in 1..(i - 1) : ~g.players[j].beganRound].name ELSE Undefined

\* [err, name]: throws for a name outside the active ring; an index that stays
\* negative after one wrap indexes the array out of range (undefined).
getPlayerNameByOffset(g, name, offset) ==
    LET playerNames == ActiveNames(g)
        playerIndex == IndexOf(playerNames, name) - 1
        index == IF offset + playerIndex < 0 THEN offset + playerIndex + Len(playerNames) ELSE offset + playerIndex
        at == JsRem(index, Len(playerNames))
    IN  IF playerIndex < 0 THEN [err |-> ErrNotInLobby, name |-> Undefined]
        ELSE IF at < 0 THEN [err |-> Ok, name |-> Undefined]
        ELSE [err |-> Ok, name |-> playerNames[at + 1]]

RECURSIVE FlatEntries(_)
FlatEntries(t) == IF t = <<>> THEN <<>> ELSE <<Head(t).card, Head(t).cover>> \o FlatEntries(Tail(t))

getTableTopDeck(g) == SelectSeq(FlatEntries(g.tableTop), LAMBDA c : c # Null)

getCoveredCount(g) == Len(SelectSeq(g.tableTop, LAMBDA e : e.cover # Null))

\* [err, card]: the key at the 0-based position, or Undefined.
getCardOnTableTopAt(g, pos) ==
    IF pos < 0 \/ pos > 5 THEN [err |-> ErrPosition, card |-> Undefined]
    ELSE IF pos + 1 > Len(g.tableTop) THEN [err |-> Ok, card |-> Undefined]
    ELSE [err |-> Ok, card |-> g.tableTop[pos + 1].card]

\* Map.prototype.set: an existing key keeps its place.
TableSet(t, card, cover) == IF \E i \in DOMAIN t : t[i].card = card THEN [i \in DOMAIN t |-> IF t[i].card = card THEN [card |-> card, cover |-> cover] ELSE t[i]] ELSE Append(t, [card |-> card, cover |-> cover])

voidTableTop(g) == [g EXCEPT !.tableTop = <<>>]

(***************************************************************************)
(* Game: mutators.  Each takes the game and returns the state it leaves    *)
(* with the error it threw; a throw keeps every assignment made before it. *)
(* `now` is the value Date.now() returns during the call.                  *)
(***************************************************************************)
\* An operator whose first parameter is the outcome r of the statements before it
\* does nothing when r threw, and otherwise carries on from the state r left.
\* ResetRoles leaving the turned flags as they are.
ResetRolesKeepTurned(g) == [g EXCEPT !.players = [i \in DOMAIN g.players |-> [g.players[i] EXCEPT !.canAttack = FALSE, !.beganRound = FALSE, !.isDefending = FALSE]]]

ResetRoles(g) == [g EXCEPT !.players = [i \in DOMAIN g.players |-> [g.players[i] EXCEPT !.canAttack = FALSE, !.beganRound = FALSE, !.isDefending = FALSE, !.turned = FALSE]]]

\* The last three assignments of setDefendingPlayer.
MarkRoles(g, name, attacker) == [g EXCEPT !.players = [i \in DOMAIN g.players |-> [g.players[i] EXCEPT !.canAttack = @ \/ g.players[i].name = attacker, !.beganRound = @ \/ g.players[i].name = attacker, !.isDefending = @ \/ g.players[i].name = name]]]

AssignRoles(reset, name, attackingPlayer) ==
    IF attackingPlayer.err # Ok THEN Throw(reset, attackingPlayer.err)
    ELSE IF ~HasPlayer(reset, attackingPlayer.name) THEN Throw(reset, ErrInvalidState)
    ELSE Return(MarkRoles(reset, name, attackingPlayer.name))

setDefendingPlayer(g, name) ==
    IF g.victory THEN Throw(g, ErrVictory)
    ELSE IF ~HasPlayer(g, name) THEN Throw(g, ErrInvalidState)
    ELSE AssignRoles(ResetRoles(g), name, getPlayerNameByOffset(ResetRoles(g), name, 0 - 1))

transferCardOntoTable(g, name, card) ==
    IF g.victory THEN Throw(g, ErrVictory)
    ELSE IF Len(g.tableTop) = 6 THEN Throw(g, ErrTableFull)
    ELSE IF ~Includes(getPlayer(g, name).deck, card) THEN Throw(g, ErrDefenderCard)
    ELSE Return([g EXCEPT !.tableTop = TableSet(@, card, Null), !.players[PlayerIndex(g, name)].deck = RemoveFirst(@, card)])

\* playerByOffset.deck = [...playerByOffset.deck, ...this.deck.splice(0, 6 - length)]
\* Draw taking from the back of the deck.
DrawFromBack(g, name) ==
    IF Len(getPlayer(g, name).deck) < 6
    THEN [g EXCEPT !.players[PlayerIndex(g, name)].deck = @ \o SubSeq(g.deck, Len(g.deck) - Min(6 - Len(@), Len(g.deck)) + 1, Len(g.deck)),
                   !.deck = SubSeq(@, 1, Len(@) - Min(6 - Len(getPlayer(g, name).deck), Len(@)))]
    ELSE g

Draw(g, name) ==
    IF Len(getPlayer(g, name).deck) < 6
    THEN [g EXCEPT !.players[PlayerIndex(g, name)].deck = @ \o SubSeq(g.deck, 1, Min(6 - Len(@), Len(g.deck))),
                   !.deck = SubSeq(@, Min(6 - Len(getPlayer(g, name).deck), Len(@)) + 1, Len(@))]
    ELSE g

\* The replenishment loop of finaliseRound, from `offset` on.
RECURSIVE Replenish(_, _, _)
ReplenishNext(g, roundStarter, offset) == IF Len(g.deck) = 0 THEN Return(g) ELSE Replenish(g, roundStarter, offset + 1)

ReplenishAt(g, roundStarter, offset, playerName) ==
    IF playerName.err # Ok THEN Throw(g, playerName.err)
    ELSE IF ~HasPlayer(g, playerName.name) THEN Throw(g, ErrInvalidState)
    ELSE ReplenishNext(Draw(g, playerName.name), roundStarter, offset)

Replenish(g, roundStarter, offset) ==
    IF ~(offset < Len(getActivePlayers(g))) THEN Return(g)
    ELSE ReplenishAt(g, roundStarter, offset, getPlayerNameByOffset(g, roundStarter, offset))

Replenishment(g, roundStarter) == IF Len(g.deck) > 0 THEN Replenish(g, roundStarter, 0) ELSE Return(g)

RECURSIVE finaliseRound(_, _)
RECURSIVE finalisePlayerTurn(_, _, _)
RECURSIVE Sweep(_, _, _, _)

MarkOut(g, name, now) == [g EXCEPT !.players[PlayerIndex(g, name)].out = now]

\* One player of the elimination loop: out when empty-handed, and their turn finalised.
SweepOne(g, name, now) == IF Len(getPlayer(g, name).deck) = 0 THEN finalisePlayerTurn(MarkOut(g, name, now), name, now) ELSE Return(g)

SweepRest(r, names, hasVictory, now) ==
    IF r.err # Ok THEN r
    ELSE IF getDefendingPlayerName(r.st) = Undefined THEN Throw(r.st, ErrInvalidState)
    ELSE Sweep(r.st, Tail(names), hasVictory /\ ~(Head(names) # getDefendingPlayerName(r.st) /\ getPlayer(r.st, Head(names)).out = NotOut), now)

\* The elimination and victory loop of finaliseRound over the players that were
\* active when it started; ends by assigning victory.
Sweep(g, names, hasVictory, now) ==
    IF names = <<>> THEN Return([g EXCEPT !.victory = hasVictory])
    ELSE SweepRest(SweepOne(g, Head(names), now), names, hasVictory, now)

TakeTable(g, defender) == [g EXCEPT !.players[PlayerIndex(g, defender)].deck = @ \o getTableTopDeck(g)]

SetDefenderTo(g, next) == IF next.err # Ok THEN Throw(g, next.err) ELSE setDefendingPlayer(g, next.name)

HandOn(g, defender, offset) == SetDefenderTo(g, getPlayerNameByOffset(g, defender, offset))

Forfeit(g) == \E i \in DOMAIN g.tableTop : g.tableTop[i].cover = Null

\* PassDefence moving the defence on by one seat after a forfeit too.
PassDefenceByOne(g) ==
    IF getDefendingPlayerName(g) = Undefined THEN Throw(g, ErrInvalidState)
    ELSE IF Forfeit(g) THEN HandOn(TakeTable(g, getDefendingPlayerName(g)), getDefendingPlayerName(g), 1)
    ELSE HandOn(g, getDefendingPlayerName(g), 1)

\* The defender takes the table (forfeit) or not, and the defence moves on.
PassDefence(g) ==
    IF getDefendingPlayerName(g) = Undefined THEN Throw(g, ErrInvalidState)
    ELSE IF Forfeit(g) THEN HandOn(TakeTable(g, getDefendingPlayerName(g)), getDefendingPlayerName(g), 2)
    ELSE HandOn(g, getDefendingPlayerName(g), 1)

\* The elimination and victory loop, after the replenishment.
SweepActive(r, now) == IF r.err # Ok THEN r ELSE Sweep(r.st, ActiveNames(r.st), TRUE, now)

\* The table is voided and the hands replenished, after the defence has passed.
VoidAndReplenish(r, roundStarter, now) == IF r.err # Ok THEN r ELSE SweepActive(Replenishment(voidTableTop(r.st), roundStarter), now)

finaliseRound(g, now) ==
    IF g.victory THEN Throw(g, ErrVictory)
    ELSE IF Len(g.tableTop) = 0 THEN Throw(g, ErrNotFinalisable)
    ELSE IF getRoundStarter(g) = Undefined THEN Throw(g, ErrNoRoundStarter)
    ELSE VoidAndReplenish(PassDefence(g), getRoundStarter(g), now)

\* new Set(...cards).size: the spread hands the constructor the first card alone,
\* and a Set built from a string holds its characters.
SpreadSetSize(cards) == IF cards = <<>> THEN 0 ELSE Cardinality({SubSeq(cards[1], i, i) : i \in 1..Len(cards[1])})

AllTurned(g) == \A i \in DOMAIN g.players : (g.players[i].out = NotOut) => g.players[i].turned

CanFinalise(g, defendingPlayerName) == \A i \in DOMAIN g.players : (g.players[i].out = NotOut) => (g.players[i].turned \/ g.players[i].name = defendingPlayerName)

DefenderGivesUp(g, name, defendingPlayerName) ==
    /\ name = defendingPlayerName
    /\ \/ Len(g.tableTop) = DeckSize
       \/ Len(g.tableTop) - getCoveredCount(g) = Len(getPlayer(g, name).deck)
       \/ (Len(g.tableTop) = 4 /\ Len(g.tableTop) - getCoveredCount(g) = 4 /\ SpreadSetSize(getTableTopDeck(g)) = 1)

\* The three places of finalisePlayerTurn that may finalise the round, in order.
TurnStep3(r, canFinalise, now) ==
    IF r.err # Ok THEN r
    ELSE IF canFinalise /\ getCoveredCount(r.st) = Len(r.st.tableTop) THEN finaliseRound(r.st, now)
    ELSE r

TurnStep2(r, name, defendingPlayerName, now) ==
    IF r.err # Ok THEN r
    ELSE TurnStep3(IF DefenderGivesUp(r.st, name, defendingPlayerName) THEN finaliseRound(r.st, now) ELSE r, CanFinalise(r.st, defendingPlayerName), now)

TurnStep1(g, name, defendingPlayerName, now) == TurnStep2(IF AllTurned(g) THEN finaliseRound(g, now) ELSE Return(g), name, defendingPlayerName, now)

GrantAttack(g, defendingPlayerName) == [g EXCEPT !.players = [i \in DOMAIN g.players |-> IF g.players[i].out = NotOut /\ g.players[i].name # defendingPlayerName THEN [g.players[i] EXCEPT !.canAttack = TRUE] ELSE g.players[i]]]

TurnOf(g, name, defendingPlayerName, attackingPlayer, now) ==
    IF attackingPlayer.err # Ok THEN Throw(g, attackingPlayer.err)
    ELSE IF attackingPlayer.name = name \/ defendingPlayerName = name THEN TurnStep1(GrantAttack(g, defendingPlayerName), name, defendingPlayerName, now)
    ELSE TurnStep1(g, name, defendingPlayerName, now)

MarkTurned(g, name) == [g EXCEPT !.players[PlayerIndex(g, name)].turned = TRUE]

TurnAfterMark(g, name, now) ==
    IF getDefendingPlayerName(g) = Undefined THEN Throw(g, ErrInvalidState)
    ELSE TurnOf(g, name, getDefendingPlayerName(g), getPlayerNameByOffset(g, getDefendingPlayerName(g), 0 - 1), now)

\* finalisePlayerTurn without the check of the empty table.
finalisePlayerTurnUnguarded(g, name, now) ==
    IF g.victory THEN Throw(g, ErrVictory)
    ELSE IF ~HasPlayer(g, name) THEN Throw(g, ErrInvalidState)
    ELSE TurnAfterMark(MarkTurned(g, name), name, now)

finalisePlayerTurn(g, name, now) ==
    IF g.victory THEN Throw(g, ErrVictory)
    ELSE IF Len(g.tableTop) = 0 THEN Throw(g, ErrNothingPlaced)
    ELSE IF ~HasPlayer(g, name) THEN Throw(g, ErrInvalidState)
    ELSE TurnAfterMark(MarkTurned(g, name), name, now)

TransferTo(g, nextPlayer, value) ==
    IF nextPlayer.err # Ok THEN Throw(g, nextPlayer.err)
    ELSE IF ~HasPlayer(g, nextPlayer.name) THEN Throw(g, ErrInvalidState)
    ELSE IF Len(g.tableTop) + 1 > Len(getPlayer(g, nextPlayer.name).deck) THEN Throw(g, ErrTransferCards)
    ELSE IF \E i \in DOMAIN g.tableTop : parseCard(g.tableTop[i].card).value # value THEN Throw(g, ErrTransferRank)
    ELSE setDefendingPlayer(g, nextPlayer.name)

\* The defender's branch of addCardToTableTop: hand the defence to the next player.
TransferDefence(g, name, value) ==
    IF getCoveredCount(g) # 0 THEN Throw(g, ErrTransferCovered)
    ELSE TransferTo(g, getPlayerNameByOffset(g, name, 1), value)

\* WinIfAlone without the assignment of the victory flag.
WinIfAloneSkipped(r) == r

WinIfAlone(r) ==
    IF r.err # Ok THEN r
    ELSE IF Len(getActivePlayers(r.st)) = 1 THEN Return([r.st EXCEPT !.victory = TRUE])
    ELSE r

\* ExitIfEmpty without the test of the deck: a player out of cards is out.
ExitIfEmptyHand(r, name, now) ==
    IF r.err # Ok THEN r
    ELSE IF Len(getPlayer(r.st, name).deck) = 0 THEN WinIfAlone(finalisePlayerTurn(MarkOut(r.st, name, now), name, now))
    ELSE r

\* The end of addCardToTableTop: a player out of cards with no deck left is out.
ExitIfEmpty(r, name, now) ==
    IF r.err # Ok THEN r
    ELSE IF Len(getPlayer(r.st, name).deck) = 0 /\ Len(r.st.deck) = 0 THEN WinIfAlone(finalisePlayerTurn(MarkOut(r.st, name, now), name, now))
    ELSE r

\* The card goes from the hand to the table.
PutDown(r, name, card, now) == IF r.err # Ok THEN r ELSE ExitIfEmpty(transferCardOntoTable(r.st, name, card), name, now)

\* RankOnTable looking at the attacking cards only, not at the cards that cover them.
RankOnTableKeys(g, value) == \E i \in DOMAIN g.tableTop : parseCard(g.tableTop[i].card).value = value

RankOnTable(g, value) == \E i \in DOMAIN getTableTopDeck(g) : parseCard(getTableTopDeck(g)[i]).value = value

PlaceCard(g, name, card, coveringCard, now) ==
    IF coveringCard.err # Ok THEN Throw(g, coveringCard.err)
    ELSE IF Len(getTableTopDeck(g)) > 0 /\ ~RankOnTable(g, coveringCard.value) THEN Throw(g, ErrRankMismatch)
    ELSE PutDown(IF getPlayer(g, name).isDefending THEN TransferDefence(g, name, coveringCard.value) ELSE Return(g), name, card, now)

\* addCardToTableTop without the check of the size of the table.
addCardToTableTopUnbounded(g, name, card, now) ==
    IF g.victory THEN Throw(g, ErrVictory)
    ELSE IF ~HasPlayer(g, name) THEN Throw(g, ErrInvalidState)
    ELSE IF ~Includes(getPlayer(g, name).deck, card) THEN Throw(g, ErrNotHeld)
    ELSE PlaceCard(g, name, card, parseCard(card), now)

addCardToTableTop(g, name, card, now) ==
    IF g.victory THEN Throw(g, ErrVictory)
    ELSE IF Len(g.tableTop) = 6 THEN Throw(g, ErrTableFull)
    ELSE IF ~HasPlayer(g, name) THEN Throw(g, ErrInvalidState)
    ELSE IF ~Includes(getPlayer(g, name).deck, card) THEN Throw(g, ErrNotHeld)
    ELSE PlaceCard(g, name, card, parseCard(card), now)

\* The end of coverCardOnTableTop.
AfterCover(g, defender, now) ==
    IF getCoveredCount(g) = DeckSize \/ Len(getPlayer(g, defender).deck) = 0 THEN finaliseRound(g, now)
    ELSE Return([g EXCEPT !.players = [i \in DOMAIN g.players |-> IF g.players[i].out = NotOut THEN [g.players[i] EXCEPT !.turned = FALSE] ELSE g.players[i]]])

SetCover(g, defender, placed, card) == [g EXCEPT !.tableTop = TableSet(@, placed, card), !.players[PlayerIndex(g, defender)].deck = RemoveAll(@, card)]

CoverWith(g, defender, placedCard, coveringCard, now) ==
    IF placedCard.err # Ok THEN Throw(g, placedCard.err)
    ELSE IF coveringCard.err # Ok THEN Throw(g, coveringCard.err)
    ELSE IF coveringCard.suit = placedCard.suit /\ placedCard.value > coveringCard.value THEN Throw(g, ErrCoverValue)
    ELSE IF coveringCard.suit # placedCard.suit /\ coveringCard.suit # g.trumpCard.suit THEN Throw(g, ErrCoverSuit)
    ELSE AfterCover(SetCover(g, defender, placedCard.card, coveringCard.card), defender, now)

\* CoverAt without the check of the victory flag.
CoverAtUnchecked(g, defender, card, at, now) ==
    IF ~Includes(getPlayer(g, defender).deck, card) THEN Throw(g, ErrDefenderCard)
    ELSE IF at.err # Ok THEN Throw(g, at.err)
    ELSE IF at.card = Undefined THEN Throw(g, ErrDefenderCard)
    ELSE CoverWith(g, defender, parseCard(at.card), parseCard(card), now)

CoverAt(g, defender, card, at, now) ==
    IF g.victory THEN Throw(g, ErrVictory)
    ELSE IF ~Includes(getPlayer(g, defender).deck, card) THEN Throw(g, ErrDefenderCard)
    ELSE IF at.err # Ok THEN Throw(g, at.err)
    ELSE IF at.card = Undefined THEN Throw(g, ErrDefenderCard)
    ELSE CoverWith(g, defender, parseCard(at.card), parseCard(card), now)

coverCardOnTableTop(g, card, pos, now) ==
    IF getDefendingPlayerName(g) = Undefined THEN Throw(g, ErrInvalidState)
    ELSE CoverAt(g, getDefendingPlayerName(g), card, getCardOnTableTopAt(g, pos), now)

(***************************************************************************)
(* Construction.  `shuffled` is the deck as shuffleArray leaves it and     *)
(* `chosen` the key getRandomKey returns.                                  *)
(***************************************************************************)
\* One round of the deal: every player, in seating order, takes the top card.
RECURSIVE DealRound(_, _)
DealRound(g, i) == IF i > Len(g.players) THEN g ELSE DealRound([g EXCEPT !.players[i] = addCard(@, Head(g.deck)), !.deck = Tail(@)], i + 1)

RECURSIVE Deal(_, _)
Deal(g, index) == IF ~(index < DeckSize) THEN g ELSE Deal(DealRound(g, 1), index + 1)

\* RevealTrump with the revealed card taken off the deck and never put back.
RevealTrumpDropped(g) == [g EXCEPT !.trumpCard = [value |-> parseCard(g.deck[1]).value, suit |-> parseCard(g.deck[1]).suit, card |-> g.deck[1]], !.deck = Tail(@)]

\* RevealTrump with the revealed card left on top of the deck.
RevealTrumpOnTop(g) == [g EXCEPT !.trumpCard = [value |-> parseCard(g.deck[1]).value, suit |-> parseCard(g.deck[1]).suit, card |-> g.deck[1]]]

\* The trump card is the top card after the deal, which then goes to the bottom.
RevealTrump(g) == [g EXCEPT !.trumpCard = [value |-> parseCard(g.deck[1]).value, suit |-> parseCard(g.deck[1]).suit, card |-> g.deck[1]], !.deck = Tail(@) \o <<Head(@)>>]

NoTrump == [value |-> 0, suit |-> Undefined, card |-> Undefined]

HasDuplicates(s) == Cardinality(Range(s)) # Len(s)

\* Number.isInteger
NumberIsInteger(n) == n \in Int

Seat(players, shuffled) == [players |-> [i \in DOMAIN players |-> NewPlayer(players[i])], tableTop |-> <<>>, deck |-> shuffled, trumpCard |-> NoTrump, victory |-> FALSE]

\* The end of the constructor, after the defender has been set.
Reveal(r) == IF r.err # Ok THEN r ELSE Return(RevealTrump(r.st))

Construct(players, shuffled, chosen) ==
    IF ~NumberIsInteger(Len(players)) /\ Len(players) < 1 THEN Throw(Seat(<<>>, shuffled), ErrNoPlayers)
    ELSE IF Len(players) > 8 THEN Throw(Seat(<<>>, shuffled), ErrTooManyPlayers)
    ELSE IF HasDuplicates(players) THEN Throw(Seat(<<>>, shuffled), ErrDuplicateNames)
    ELSE Reveal(setDefendingPlayer(Deal(Seat(players, shuffled), 0), chosen))

\* getRandomKey: one of the keys of the Map; nothing when it has none.
RandomKeys(players) == IF players = <<>> THEN {Undefined} ELSE Range(players)

(***************************************************************************)
(* Snapshots.  serialize() hands out the game's own Maps and arrays, so a  *)
(* GameState holds references to them and a copy of the victory flag only. *)
(***************************************************************************)
serialize(g) == [players |-> "this.players", tableTop |-> "this.tableTop", deck |-> "this.deck", trumpCard |-> "this.trumpCard", victory |-> g.victory]

\* What a GameState shows while the game it came from is in state g.
Read(state, g) ==
    [players |-> [kind |-> "Map", entries |-> IF state.players = "this.players" THEN g.players ELSE <<>>],
     tableTop |-> [kind |-> "Map", entries |-> IF state.tableTop = "this.tableTop" THEN g.tableTop ELSE <<>>],
     deck |-> IF state.deck = "this.deck" THEN g.deck ELSE <<>>,
     trumpCard |-> IF state.trumpCard = "this.trumpCard" THEN g.trumpCard ELSE NoTrump,
     victory |-> state.victory]

\* Object.keys and Object.entries: a Map has no enumerable properties of its own.
ObjectKeys(v) == IF v.kind = "Map" THEN <<>> ELSE [i \in DOMAIN v.entries |-> v.entries[i].name]

ObjectEntries(v) == IF v.kind = "Map" THEN <<>> ELSE v.entries

Restore(r, state) == IF r.err # Ok THEN r ELSE Return([players |-> ObjectEntries(state.players), tableTop |-> ObjectEntries(state.tableTop), deck |-> state.deck, trumpCard |-> state.trumpCard, victory |-> state.victory])

\* `state` is what the snapshot shows at the time of the call.
fromState(state, shuffled, chosen) == Restore(Construct(ObjectKeys(state.players), shuffled, chosen), state)

(***************************************************************************)
(* The view of the game handed to one player.                              *)
(***************************************************************************)
\* ...player: the fields of the Player object (the name is the key of the Map).
Spread(player) == [deck |-> player.deck, canAttack |-> player.canAttack, beganRound |-> player.beganRound, turned |-> player.turned, isDefending |-> player.isDefending, out |-> player.out]

\* [...players.slice(idx + 1, players.length), ...players.slice(0, idx)]
PlayerOrder(g, playerName) == SubSeq(PlayerNames(g), PlayerIndex(g, playerName) + 1, Len(g.players)) \o SubSeq(PlayerNames(g), 1, PlayerIndex(g, playerName) - 1)

Opponent(g, name) == [name |-> name, deck |-> Len(getPlayer(g, name).deck), canAttack |-> getPlayer(g, name).canAttack, beganRound |-> getPlayer(g, name).beganRound, turned |-> getPlayer(g, name).turned, isDefending |-> getPlayer(g, name).isDefending, out |-> getPlayer(g, name).out # NotOut]

ViewOf(g, playerName, player) ==
    [deck |-> player.deck, canAttack |-> player.canAttack, beganRound |-> player.beganRound, turned |-> player.turned, isDefending |-> player.isDefending,
     out |-> player.out # NotOut,
     trumpCard |-> g.trumpCard,
     deckSize |-> Len(g.deck),
     tableTop |-> g.tableTop,
     players |-> [i \in DOMAIN PlayerOrder(g, playerName) |-> Opponent(g, PlayerOrder(g, playerName)[i])]]

\* getStateForPlayer spreading the player of the next seat instead of the one asked for.
getStateForPlayerNextSeat(g, playerName) ==
    IF ~HasPlayer(g, playerName) THEN [err |-> ErrInvalidState, view |-> Undefined]
    ELSE [err |-> Ok, view |-> ViewOf(g, playerName, Spread(g.players[(PlayerIndex(g, playerName) % Len(g.players)) + 1]))]

\* [err, view]
getStateForPlayer(g, playerName) ==
    IF ~HasPlayer(g, playerName) THEN [err |-> ErrInvalidState, view |-> Undefined]
    ELSE [err |-> Ok, view |-> ViewOf(g, playerName, Spread(getPlayer(g, playerName)))]

(***************************************************************************)
(* The history of a game: a list of nodes, each a list of recorded actions *)
(* and a finalised flag.  An action is recorded by its type.               *)
(***************************************************************************)
ActionType == {"place", "cover", "forfeit", "new_round", "pickup", "exit", "victory"}

ErrNoNodes == "InvalidHistoryState: Cannot add entry when no nodes exist."

\* createNode always hands the constructor an array.
HistoryNode(actions) == [actions |-> actions, finalised |-> FALSE]

NoHistory == [nodes |-> <<>>]

\* The null that getLastNode returns, as a value comparable with a node.
NoNode == [null |-> TRUE]

getLastNode(h) ==
    IF Len(h.nodes) = 0 THEN NoNode ELSE h.nodes[Len(h.nodes)]

createNode(h, begin) ==
    LET prevNode == getLastNode(h)
        closed == IF prevNode # NoNode
                  THEN [h.nodes EXCEPT ![Len(h.nodes)].finalised = TRUE]
                  ELSE h.nodes
        nodes == IF begin # Null THEN <<begin>> ELSE <<>>
    IN  [h EXCEPT !.nodes = Append(closed, HistoryNode(nodes))]

addEntryToFirst(h, action) ==
    IF Len(h.nodes) = 0
    THEN Throw(h, ErrNoNodes)
    ELSE Return([h EXCEPT !.nodes[1].actions = Append(@, action)])

addEntry(h, action) ==
    IF Len(h.nodes) = 0
    THEN Throw(h, ErrNoNodes)
    ELSE Return([h EXCEPT !.nodes[Len(h.nodes)].actions = Append(@, action)])

removeLastNode(h) ==
    IF Len(h.nodes) = 0
    THEN h
    ELSE [h EXCEPT !.nodes = SubSeq(h.nodes, 1, Len(h.nodes) - 1)]

(***************************************************************************)
(* The games played.  A game starts from one of a few shuffles and         *)
(* rosters; its caller follows a script of calls and may leave it at any   *)
(* point for up to MaxFree calls of its own choosing.                      *)
(***************************************************************************)
VARIABLES
    game,   \* the Game object
    last,   \* the last call made and the error it threw (Ok: it returned)
    run,    \* the caller: the script followed, the next call of it, the free calls left
    ctor,   \* the arguments of the construction and the outcomes of its random draws
    snap,   \* what the caller kept of a serialize() call
    history \* a History object and its nodes

vars == <<game, last, run, ctor, snap, history>>

MaxFree == 2

MaxRoster == 9

MaxCut == 3

Name(i) == "p" \o ToString(i)

Roster(n) == [i \in 1..n |-> Name(i)]

\* A cut of the deck: one of the permutations shuffleArray can produce.
Cut(deck, k) == SubSeq(deck, k + 1, Len(deck)) \o SubSeq(deck, 1, k)

Call(op, name, card, pos) == [op |-> op, name |-> name, card |-> card, pos |-> pos]

\* Two players: three rounds each defended with six covers, a forfeit that
\* empties the deck, and an attacker who plays out their hand.
DuelDeck ==
    <<
        "2H", "3C", "2D", "3S", "2C", "4H", "2S", "4D", "3H", "5H", "3D", "5D", "QC",
        "7C", "7S", "8H", "8D", "9H", "9D", "6H", "6D", "6C", "6S", "7H", "7D", "JC",
        "JS", "QH", "QD", "KH", "KD", "10H", "10D", "10C", "10S", "JH", "JD", "5C", "8S",
        "9C", "QS", "KC", "KS", "AH", "AD", "AC", "AS", "4C", "4S", "5S", "8C", "9S"
    >>

DuelScript ==
    <<
        Call("attack", "p1", "2C", 0), Call("cover", "", "3C", 0), Call("attack", "p1", "2S", 0),
        Call("cover", "", "3S", 1), Call("attack", "p1", "3H", 0), Call("cover", "", "4H", 2),
        Call("attack", "p1", "3D", 0), Call("cover", "", "4D", 3), Call("attack", "p1", "2H", 0),
        Call("cover", "", "5H", 4), Call("attack", "p1", "2D", 0), Call("cover", "", "5D", 5),
        Call("attack", "p2", "6C", 0), Call("cover", "", "7C", 0), Call("attack", "p2", "6S", 0),
        Call("cover", "", "7S", 1), Call("attack", "p2", "7H", 0), Call("cover", "", "8H", 2),
        Call("attack", "p2", "7D", 0), Call("cover", "", "8D", 3), Call("attack", "p2", "6H", 0),
        Call("cover", "", "9H", 4), Call("attack", "p2", "6D", 0), Call("cover", "", "9D", 5),
        Call("attack", "p1", "10C", 0), Call("cover", "", "JC", 0), Call("attack", "p1", "10S", 0),
        Call("cover", "", "JS", 1), Call("attack", "p1", "JH", 0), Call("cover", "", "QH", 2),
        Call("attack", "p1", "JD", 0), Call("cover", "", "QD", 3), Call("attack", "p1", "10H", 0),
        Call("cover", "", "KH", 4), Call("attack", "p1", "10D", 0), Call("cover", "", "KD", 5),
        Call("attack", "p2", "AH", 0), Call("attack", "p2", "AD", 0), Call("attack", "p2", "AC", 0),
        Call("attack", "p2", "AS", 0), Call("finaliseRound", "", "", 0), Call("attack", "p2", "4C", 0),
        Call("attack", "p2", "4S", 0), Call("cover", "", "5C", 0), Call("attack", "p2", "5S", 0),
        Call("cover", "", "8S", 2), Call("attack", "p2", "8C", 0), Call("cover", "", "9C", 3),
        Call("attack", "p2", "9S", 0), Call("cover", "", "QS", 4), Call("attack", "p2", "QC", 0)
    >>

\* Eight players (four cards left to draw): the player after the defender plays
\* out a whole hand and the defender covers all of it; the players left in the
\* ring then declare their turns done on a new attack, the round is finalised
\* twice over and the defence is handed to the attacker.
FullTableDeck ==
    <<
        "9H", "7H", "2H", "3C", "5H", "6C", "JH", "QC", "9D", "7D", "2D", "3S", "5D",
        "6S", "JD", "QS", "8C", "7C", "2C", "4H", "5C", "9C", "JC", "KH", "8S", "7S",
        "2S", "4D", "5S", "9S", "JS", "KD", "10H", "8H", "3H", "4C", "6H", "10C", "QH",
        "KC", "10D", "8D", "3D", "4S", "6D", "10S", "QD", "KS", "AH", "AD", "AC", "AS"
    >>

FullTableScript ==
    <<
        Call("attack", "p2", "7H", 0), Call("cover", "", "9H", 0), Call("attack", "p2", "7D", 0),
        Call("cover", "", "9D", 1), Call("attack", "p2", "7C", 0), Call("cover", "", "8C", 2),
        Call("attack", "p2", "7S", 0), Call("cover", "", "8S", 3), Call("attack", "p2", "8H", 0),
        Call("cover", "", "10H", 4), Call("attack", "p2", "8D", 0), Call("cover", "", "10D", 5),
        Call("attack", "p3", "2H", 0),
        Call("finalisePlayerTurn", "p1", "", 0), Call("finalisePlayerTurn", "p3", "", 0), Call("finalisePlayerTurn", "p4", "", 0),
        Call("finalisePlayerTurn", "p5", "", 0), Call("finalisePlayerTurn", "p6", "", 0), Call("finalisePlayerTurn", "p7", "", 0),
        Call("finalisePlayerTurn", "p8", "", 0), Call("finaliseRound", "", "", 0), Call("attack", "p3", "2D", 0),
        Call("finaliseRound", "", "", 0), Call("setDefendingPlayer", "p3", "", 0)
    >>

\* Two players, after the three defended rounds of DuelScript: the deck is
\* drawn empty, and the defender covers with their last card while the attacker
\* holds one card more.
LastCardScript ==
    SubSeq(DuelScript, 1, 36) \o
    <<
        Call("attack", "p1", "KC", 0), Call("cover", "", "AC", 0), Call("finaliseRound", "", "", 0),
        Call("attack", "p1", "5S", 0), Call("cover", "", "8C", 0), Call("attack", "p1", "8S", 0),
        Call("cover", "", "AS", 1), Call("finaliseRound", "", "", 0), Call("attack", "p2", "AH", 0),
        Call("cover", "", "QC", 0), Call("finalisePlayerTurn", "p2", "", 0), Call("attack", "p2", "4S", 0),
        Call("cover", "", "9S", 0), Call("cover", "", "QS", 0), Call("cover", "", "KS", 0),
        Call("attack", "p2", "4C", 0), Call("cover", "", "9C", 1), Call("cover", "", "5C", 1)
    >>

\* Eight players, the deck of FullTableDeck with p2 defending: p2 takes a
\* first round of four nines, which empties the deck, and p3, who begins the
\* second round against p4, plays out their whole hand.
OpenRingScript ==
    <<
        Call("attack", "p1", "9H", 0), Call("attack", "p1", "9D", 0), Call("attack", "p6", "9C", 0),
        Call("attack", "p6", "9S", 0), Call("finaliseRound", "", "", 0), Call("attack", "p3", "2H", 0),
        Call("attack", "p3", "2D", 0), Call("attack", "p3", "2C", 0), Call("attack", "p3", "2S", 0),
        Call("cover", "", "3C", 2), Call("attack", "p3", "3H", 0), Call("attack", "p3", "3D", 0)
    >>

Scenarios ==
    <<
        [players |-> Roster(1), shuffled |-> generateCardDeck, chosen |-> "p1", script |-> <<>>],
        [players |-> Roster(2), shuffled |-> DuelDeck, chosen |-> "p2", script |-> DuelScript],
        [players |-> Roster(8), shuffled |-> FullTableDeck, chosen |-> "p1", script |-> FullTableScript],
        [players |-> Roster(3), shuffled |-> generateCardDeck, chosen |-> "p2", script |-> <<>>],
        [players |-> Roster(2), shuffled |-> DuelDeck, chosen |-> "p2", script |-> LastCardScript],
        [players |-> Roster(8), shuffled |-> FullTableDeck, chosen |-> "p2", script |-> OpenRingScript]
    >>

IsShuffle(deck) == Len(deck) = Len(generateCardDeck) /\ Range(deck) = Range(generateCardDeck)

Script == IF run.scn \in DOMAIN Scenarios THEN Scenarios[run.scn].script ELSE <<>>

\* The calls made so far, and the clock reading during the next one.
CallsMade == (run.pc - 1) + (MaxFree - run.free)

Now == CallsMade + 1

Scripted(c) == run.free = MaxFree /\ run.pc <= Len(Script) /\ Script[run.pc] = c

Allowed(c) == last.op # "none" /\ (Scripted(c) \/ run.free > 0)

\* A card label for a call with a card the player may not hold.
ProbeCard == generateCardDeck[1]

NoName == "nobody"

NameInputs == Range(PlayerNames(game)) \cup {NoName}

HandOf(g, name) == IF HasPlayer(g, name) THEN Range(getPlayer(g, name).deck) ELSE {}

\* The positions of the table, the first free one, and one past the last allowed.
CoverPositions(g) == (0..Min(Len(g.tableTop), DeckSize - 1)) \cup {DeckSize}

Made(c, r) ==
    /\ Allowed(c)
    /\ game' = r.st
    /\ last' = [op |-> c.op, err |-> r.err]
    /\ run' = IF Scripted(c) THEN [run EXCEPT !.pc = @ + 1] ELSE [run EXCEPT !.free = @ - 1]
    /\ UNCHANGED <<ctor, snap, history>>

Attack ==
    \E name \in NameInputs : \E card \in HandOf(game, name) \cup {ProbeCard} :
        Made(Call("attack", name, card, 0), addCardToTableTop(game, name, card, Now))

Cover ==
    \E card \in HandOf(game, getDefendingPlayerName(game)) \cup {ProbeCard} : \E pos \in CoverPositions(game) :
        Made(Call("cover", "", card, pos), coverCardOnTableTop(game, card, pos, Now))

DeclareTurnDone ==
    \E name \in NameInputs :
        Made(Call("finalisePlayerTurn", name, "", 0), finalisePlayerTurn(game, name, Now))

FinaliseRound == Made(Call("finaliseRound", "", "", 0), finaliseRound(game, Now))

AssignDefender ==
    \E name \in NameInputs :
        Made(Call("setDefendingPlayer", name, "", 0), setDefendingPlayer(game, name))

\* The caller keeps what serialize() returns, and what it showed at that moment.
Serialize ==
    /\ Allowed(Call("serialize", "", "", 0))
    /\ snap' = [taken |-> TRUE, state |-> serialize(game), at |-> Read(serialize(game), game)]
    /\ last' = [op |-> "serialize", err |-> Ok]
    /\ run' = IF Scripted(Call("serialize", "", "", 0)) THEN [run EXCEPT !.pc = @ + 1] ELSE [run EXCEPT !.free = @ - 1]
    /\ UNCHANGED <<game, ctor, history>>

NoSnapshot == [taken |-> FALSE]

Init ==
    \E s \in DOMAIN Scenarios :
        /\ IsShuffle(Scenarios[s].shuffled)
        /\ Construct(Scenarios[s].players, Scenarios[s].shuffled, Scenarios[s].chosen).err = Ok
        /\ ctor = [players |-> Scenarios[s].players, shuffled |-> Scenarios[s].shuffled, chosen |-> Scenarios[s].chosen]
        /\ game = Construct(Scenarios[s].players, Scenarios[s].shuffled, Scenarios[s].chosen).st
        /\ last = [op |-> "new", err |-> Ok]
        /\ run = [scn |-> s, pc |-> 1, free |-> MaxFree]
        /\ snap = NoSnapshot
        /\ history = NoHistory

Next == Attack \/ Cover \/ DeclareTurnDone \/ FinaliseRound \/ AssignDefender \/ Serialize

Spec == Init /\ [][Next]_vars

(***************************************************************************)
(* Construction on its own: the rosters, shuffles and random picks a       *)
(* caller can hand to `new Game(players)`.                                 *)
(***************************************************************************)
\* A roster in which the last name repeats the first.
Repeated(n) == [i \in 1..n |-> IF i = n THEN Name(1) ELSE Name(i)]

Rosters == {Roster(n) : n \in 0..MaxRoster} \cup {Repeated(n) : n \in 2..MaxRoster}

Shuffles == {Cut(deck, k) : deck \in {generateCardDeck, DuelDeck, FullTableDeck}, k \in 0..MaxCut}

\* The object as the field initialisers leave it, before the constructor body runs.
Blank == Seat(<<>>, generateCardDeck)

InitConstruct ==
    \E players \in Rosters : \E shuffled \in Shuffles : \E chosen \in RandomKeys(players) :
        /\ ctor = [players |-> players, shuffled |-> shuffled, chosen |-> chosen]
        /\ game = Blank
        /\ last = [op |-> "none", err |-> Ok]
        /\ run = [scn |-> 0, pc |-> 1, free |-> 0]
        /\ snap = NoSnapshot
        /\ history = NoHistory

New ==
    /\ last.op = "none"
    /\ game' = Construct(ctor.players, ctor.shuffled, ctor.chosen).st
    /\ last' = [last EXCEPT !.op = "new", !.err = Construct(ctor.players, ctor.shuffled, ctor.chosen).err]
    /\ UNCHANGED <<run, ctor, snap, history>>

SpecConstruct == InitConstruct /\ [][New]_vars

(***************************************************************************)
(* The card codec on its own: the labels a caller can hand to parseCard.   *)
(***************************************************************************)
\* The numeric part of a label: the thirteen numerics, nothing, and strings
\* that are none of them.
NumericParts == Range(CardNumerics) \cup {"", "1", "11", "j", "B"}

\* The suit part of a label: the four suits, nothing, and characters that are
\* none of them.
SuitParts == Range(CardSuits) \cup {"", "h", "X"}

InitCodec ==
    \E numeric \in NumericParts : \E suit \in SuitParts :
        /\ ctor = [numeric |-> numeric, suit |-> suit, label |-> numeric \o suit]
        /\ game = Blank
        /\ last = [op |-> "none", err |-> Ok]
        /\ run = [scn |-> 0, pc |-> 1, free |-> 0]
        /\ snap = NoSnapshot
        /\ history = NoHistory

\* The caller keeps what parseCard returns.
ParseCard ==
    /\ last.op = "none"
    /\ snap' = [taken |-> FALSE, card |-> parseCard(ctor.label)]
    /\ last' = [last EXCEPT !.op = "parseCard", !.err = parseCard(ctor.label).err]
    /\ UNCHANGED <<game, run, ctor, history>>

SpecCodec == InitCodec /\ [][ParseCard]_vars

(***************************************************************************)
(* The history on its own: a History constructed without nodes, and any    *)
(* calls of createNode, addEntry and removeLastNode on it, with at most    *)
(* MaxNodes nodes of at most MaxActions actions each.                      *)
(***************************************************************************)
MaxNodes == 3

MaxActions == 2

Recorded == {"place", "cover"}

WithinBounds(h) ==
    /\ Len(h.nodes) <= MaxNodes
    /\ \A i \in DOMAIN h.nodes : Len(h.nodes[i].actions) <= MaxActions

InitHistory ==
    /\ game = Blank
    /\ ctor = [players |-> <<>>]
    /\ last = [op |-> "none", err |-> Ok]
    /\ run = [scn |-> 0, pc |-> 1, free |-> 0]
    /\ snap = NoSnapshot
    /\ history = NoHistory

CreateNode ==
    \E begin \in Recorded \cup {Null} :
        /\ WithinBounds(createNode(history, begin))
        /\ history' = createNode(history, begin)
        /\ last' = [op |-> "createNode", err |-> Ok]
        /\ UNCHANGED <<game, run, ctor, snap>>

AddEntry ==
    \E action \in Recorded :
        /\ WithinBounds(addEntry(history, action).st)
        /\ history' = addEntry(history, action).st
        /\ last' = [op |-> "addEntry", err |-> addEntry(history, action).err]
        /\ UNCHANGED <<game, run, ctor, snap>>

RemoveLastNode ==
    /\ history' = removeLastNode(history)
    /\ last' = [op |-> "removeLastNode", err |-> Ok]
    /\ UNCHANGED <<game, run, ctor, snap>>

NextHistory == CreateNode \/ AddEntry \/ RemoveLastNode

SpecHistory == InitHistory /\ [][NextHistory]_vars

(***************************************************************************)
(* Properties.                                                             *)
(***************************************************************************)
RECURSIVE SumHands(_)
SumHands(players) == IF players = <<>> THEN 0 ELSE Len(Head(players).deck) + SumHands(Tail(players))

\* The cards in the deck, in the hands and on the table (keys and covers).
Total(g) == Len(g.deck) + SumHands(g.players) + Len(getTableTopDeck(g))

Defenders(g) == {i \in DOMAIN g.players : g.players[i].isDefending}

Mutators == {"attack", "cover", "finalisePlayerTurn", "finaliseRound", "setDefendingPlayer"}

\* C1: in every state reached by attack, cover, declareTurnDone and
\* finaliseRound calls, the deck, the hands and the table hold 52 cards
\* between them.
CardConservation == Total(game) = 52

\* C2: while the game is not won, exactly one player is the defender, and
\* that player has not been eliminated.
UniqueDefender == ~game.victory => (Cardinality(Defenders(game)) = 1 /\ \A i \in Defenders(game) : game.players[i].out = NotOut)

\* C3: an attack, cover, declareTurnDone or finaliseRound call that throws
\* leaves the whole game as it found it.
FailureAtomicity == [][(last'.op \in {"attack", "cover", "finalisePlayerTurn", "finaliseRound"} /\ last'.err # Ok) => game' = game]_vars

\* C4: once the game is won it stays won and nothing changes any more; every
\* attack, cover, declareTurnDone, finaliseRound or assignDefender call made
\* then throws the game-won error.
VictoryAbsorbing == [][game.victory => (game'.victory /\ game' = game /\ (last'.op \in Mutators => last'.err = ErrVictory))]_vars

\* A cover was attempted on a won game.
VictoryAbsorbingWitness == game.victory /\ last.op = "cover" /\ last.err = ErrVictory

\* C5: whatever the shuffle and the random pick made inside the constructor,
\* Game.fromState(g.serialize()) returns a game equal to g.
SerializeRoundTrip ==
    (last.op # "none") =>
        \A shuffled \in Shuffles : \A chosen \in RandomKeys(ObjectKeys(Read(serialize(game), game).players)) :
            fromState(Read(serialize(game), game), shuffled, chosen) = Return(game)

\* C6: what serialize() returned shows the same players, table, deck, trump
\* card and victory flag whatever is done to the game afterwards.
SnapshotIsolation == snap.taken => Read(snap.state, game) = snap.at

\* The card after `card` in the generated deck, cyclically.
NextCard == [card \in Range(generateCardDeck) |-> generateCardDeck[(IndexOf(generateCardDeck, card) % Len(generateCardDeck)) + 1]]

RECURSIVE Shift(_, _)
Shift(card, k) == IF k = 0 THEN card ELSE Shift(NextCard[card], k - 1)

MaxShift == 2

\* The game with every card hidden from `name` (the other hands, the deck)
\* replaced by another one.
Scramble(g, name, k) ==
    [g EXCEPT !.players = [i \in DOMAIN g.players |-> IF g.players[i].name = name THEN g.players[i] ELSE [g.players[i] EXCEPT !.deck = [j \in DOMAIN g.players[i].deck |-> Shift(g.players[i].deck[j], k)]]],
              !.deck = [j \in DOMAIN g.deck |-> Shift(g.deck[j], k)]]

\* The card labels a view holds.
ViewLabels(v) == Range(v.deck) \cup {v.trumpCard.card} \cup {v.tableTop[i].card : i \in DOMAIN v.tableTop} \cup ({v.tableTop[i].cover : i \in DOMAIN v.tableTop} \ {Null})

\* C7: the view handed to a player is the same whatever cards the other
\* players and the deck hold, and every card label in it is taken from the
\* player's own hand, the table or the trump card.
ProjectionRedaction ==
    (last.op # "none") =>
        \A i \in DOMAIN game.players :
            /\ getStateForPlayer(game, game.players[i].name).err = Ok
            /\ \A k \in 1..MaxShift : getStateForPlayer(Scramble(game, game.players[i].name, k), game.players[i].name) = getStateForPlayer(game, game.players[i].name)
            /\ ViewLabels(getStateForPlayer(game, game.players[i].name).view) \subseteq (Range(game.players[i].deck) \cup Range(getTableTopDeck(game)) \cup {game.trumpCard.card})

\* A game in play in which two other players hold cards and the deck is not empty.
ProjectionRedactionWitness ==
    /\ last.op = "cover" /\ last.err = Ok
    /\ Len(game.tableTop) > 0 /\ Len(game.deck) > 0 /\ Len(game.players) > 2
    /\ \A i \in DOMAIN game.players : Len(game.players[i].deck) > 0 /\ Scramble(game, game.players[i].name, 1) # game

\* C8: a roster of 1 to 8 unique names gives a game with 52 - 6n cards in
\* the deck, six in every hand, an empty table, no victory and one defender.
ConstructionPostcondition ==
    (last.op = "new" /\ Len(ctor.players) \in 1..8 /\ ~HasDuplicates(ctor.players)) =>
        /\ last.err = Ok
        /\ PlayerNames(game) = ctor.players
        /\ Len(game.deck) = 52 - 6 * Len(ctor.players)
        /\ \A i \in DOMAIN game.players : Len(game.players[i].deck) = 6
        /\ game.tableTop = <<>>
        /\ ~game.victory
        /\ Cardinality(Defenders(game)) = 1

\* Two players: 40 cards in the deck, six in each hand.
ConstructionPostconditionWitness == last.op = "new" /\ last.err = Ok /\ Len(game.players) = 2 /\ Len(game.deck) = 40 /\ Len(game.players[1].deck) = 6 /\ Len(game.players[2].deck) = 6

\* C9: construction throws a player-count error for an empty roster and for
\* one of more than 8 names, the duplicate-names error for a repeated name,
\* and succeeds otherwise.
ConstructionValidation ==
    (last.op = "new") =>
        last.err = (IF Len(ctor.players) = 0 THEN ErrNoPlayers
                    ELSE IF Len(ctor.players) > 8 THEN ErrTooManyPlayers
                    ELSE IF HasDuplicates(ctor.players) THEN ErrDuplicateNames
                    ELSE Ok)

\* C10 as stated: the table never holds more than 6 entries, and an attack
\* on a table of 6 entries throws the table-full error and changes nothing.
TableBoundAsStated == [][Len(game'.tableTop) <= 6 /\ ((last'.op = "attack" /\ Len(game.tableTop) = 6) => (last'.err = ErrTableFull /\ game' = game))]_vars

\* C10: the table never holds more than 6 entries; an attack on a table of 6
\* entries changes nothing and throws the table-full error, or the game-won
\* error when the game is won.
TableBound == [][Len(game'.tableTop) <= 6 /\ ((last'.op = "attack" /\ Len(game.tableTop) = 6) => (last'.err = (IF game.victory THEN ErrVictory ELSE ErrTableFull) /\ game' = game))]_vars

\* An attack was turned down on a full table in a game not won.
TableBoundWitness == Len(game.tableTop) = 6 /\ ~game.victory /\ last.op = "attack" /\ last.err = ErrTableFull

\* The sequence s without its i-th element.
Without(s, i) == SubSeq(s, 1, i - 1) \o SubSeq(s, i + 1, Len(s))

\* What an attack with `card` by `name` is to do to game g to give game h.
AttackEffect(g, h, name, card) ==
    /\ h.tableTop = Append(g.tableTop, [card |-> card, cover |-> Null])
    /\ \E i \in DOMAIN getPlayer(g, name).deck : getPlayer(g, name).deck[i] = card /\ getPlayer(h, name).deck = Without(getPlayer(g, name).deck, i)
    /\ h.deck = g.deck
    /\ PlayerNames(h) = PlayerNames(g)
    /\ \A i \in DOMAIN g.players : g.players[i].name # name => h.players[i].deck = g.players[i].deck
    /\ getDefendingPlayerName(h) = getDefendingPlayerName(g)
    /\ h.victory = g.victory

\* C11: a successful attack by a player who is not the defender and who holds
\* cards afterwards appends one uncovered entry keyed by the card to the table
\* and takes that one card out of the player's hand; the deck, the other hands,
\* the entries already on the table, the defender and the victory flag stay.
AttackFrame ==
    [][(last'.op = "attack" /\ last'.err = Ok) =>
        \A name \in NameInputs : \A card \in HandOf(game, name) :
            (addCardToTableTop(game, name, card, Now) = Return(game') /\ ~getPlayer(game, name).isDefending /\ Len(getPlayer(game', name).deck) > 0)
                => AttackEffect(game, game', name, card)]_vars

\* The covers a defender can try in game g.
CoverCards(g) == HandOf(g, getDefendingPlayerName(g))

\* The table and the hand once the covering card has been set on the entry at pos, before the round is looked at.
Covered(g, card, pos) == SetCover(g, getDefendingPlayerName(g), getCardOnTableTopAt(g, pos).card, card)

\* C12: when a successful cover leaves every entry of the table covered, or
\* the defender without cards, the round is finalised within the call: the
\* table is empty when it returns, and when every entry was covered the
\* defender is now the next player of the ring after the old one.
CoverFinalises ==
    [][(last'.op = "cover" /\ last'.err = Ok) =>
        \A card \in CoverCards(game) : \A pos \in 0..(Len(game.tableTop) - 1) :
            (coverCardOnTableTop(game, card, pos, Now) = Return(game')
             /\ (getCoveredCount(Covered(game, card, pos)) = Len(game.tableTop) \/ getPlayer(Covered(game, card, pos), getDefendingPlayerName(game)).deck = <<>>))
                => /\ game'.tableTop = <<>>
                   /\ getCoveredCount(Covered(game, card, pos)) = Len(game.tableTop) => getDefendingPlayerName(game') = getPlayerNameByOffset(game, getDefendingPlayerName(game), 1).name]_vars

\* The call made is finalisePlayerTurn(name), and with it every active player
\* has declared their turn done on a table of which nothing is covered.
LastDeclaration(g, h, name, err, now) ==
    /\ finalisePlayerTurn(g, name, now) = [st |-> h, err |-> err]
    /\ ~g.victory /\ Len(g.tableTop) > 0 /\ getCoveredCount(g) = 0
    /\ getPlayer(g, name).out = NotOut /\ ~getPlayer(g, name).turned
    /\ AllTurned(MarkTurned(g, name))

\* C13: on a table the defender has covered nothing of, the call with which
\* the last active player declares their turn done finalises the round: the
\* table cards are in the old defender's hand, the table is empty, and the
\* defender is the player two seats after the old one in the ring.
ForfeitByDeclarations ==
    [][(last'.op = "finalisePlayerTurn") =>
        \A i \in DOMAIN game.players :
            LastDeclaration(game, game', game.players[i].name, last'.err, Now)
                => /\ game'.tableTop = <<>>
                   /\ Range(getTableTopDeck(game)) \subseteq HandOf(game', getDefendingPlayerName(game))
                   /\ getDefendingPlayerName(game') = getPlayerNameByOffset(game, getDefendingPlayerName(game), 2).name]_vars

\* C14: a successful attack with the player's last card while the deck is
\* empty marks that player eliminated within the call, and leaves the game won
\* if one active player remains; an attack on a won game throws the game-won
\* error.
VictoryByLastAttack ==
    [][(last'.op = "attack") =>
        /\ game.victory => last'.err = ErrVictory
        /\ last'.err = Ok =>
            \A name \in NameInputs : \A card \in HandOf(game, name) :
                (addCardToTableTop(game, name, card, Now) = Return(game') /\ getPlayer(game, name).deck = <<card>> /\ game.deck = <<>>)
                    => /\ getPlayer(game', name).out # NotOut
                       /\ Len(getActivePlayers(game')) = 1 => game'.victory]_vars

\* An attack has returned and left the game won, with one active player.
VictoryByLastAttackWitness == last.op = "attack" /\ last.err = Ok /\ game.victory /\ game.deck = <<>> /\ Len(getActivePlayers(game)) = 1 /\ Len(game.players) > 1

\* C15: in a game not won, finaliseRound on an empty table throws its
\* nothing-played error and changes nothing, and finalisePlayerTurn on an
\* empty table throws its nothing-placed error and changes nothing, the
\* turned flag of the caller included.
EmptyTableGuard ==
    [][(~game.victory /\ game.tableTop = <<>>) =>
        /\ last'.op = "finaliseRound" => (last'.err = ErrNotFinalisable /\ game' = game)
        /\ last'.op = "finalisePlayerTurn" => (last'.err = ErrNothingPlaced /\ game' = game)]_vars

\* A turn was declared done on an empty table by a player whose flag is not set.
EmptyTableGuardWitness == ~game.victory /\ game.tableTop = <<>> /\ last.op = "finalisePlayerTurn" /\ last.err = ErrNothingPlaced /\ \E i \in DOMAIN game.players : ~game.players[i].turned

\* C16: a player's elimination marker, once set, is never cleared or changed
\* by a later call, and the seated players and their order stay the same.
EliminationPermanent ==
    [][/\ PlayerNames(game') = PlayerNames(game)
       /\ \A i \in DOMAIN game.players : game.players[i].out # NotOut => game'.players[i].out = game.players[i].out]_vars

\* `cover` beats `placed`: the same suit and a higher value, or a trump on a
\* card of another suit.
Beats(cover, placed, trumpSuit) ==
    \/ parseCard(cover).suit = parseCard(placed).suit /\ parseCard(cover).value > parseCard(placed).value
    \/ parseCard(cover).suit # parseCard(placed).suit /\ parseCard(cover).suit = trumpSuit

\* C17: every covered entry of the table is covered by a card that beats it,
\* and a cover that does not beat the card at its position throws the
\* cover-too-low or wrong-suit error and changes nothing.
CoverLegality ==
    [][/\ \A i \in DOMAIN game'.tableTop : game'.tableTop[i].cover # Null => Beats(game'.tableTop[i].cover, game'.tableTop[i].card, game'.trumpCard.suit)
       /\ (last'.op = "cover" /\ ~game.victory) =>
            \A card \in CoverCards(game) : \A pos \in 0..(Len(game.tableTop) - 1) :
                (coverCardOnTableTop(game, card, pos, Now) = [st |-> game', err |-> last'.err] /\ ~Beats(card, game.tableTop[pos + 1].card, game.trumpCard.suit))
                    => (last'.err \in {ErrCoverValue, ErrCoverSuit} /\ game' = game)]_vars

\* C18: a cover aimed at an entry already covered, or at a position with no
\* entry, throws and changes nothing; a covering card stays on its entry as
\* long as the entry is on the table.
CoverOnce ==
    [][/\ (last'.op = "cover" /\ ~game.victory) =>
            \A card \in CoverCards(game) \cup {ProbeCard} : \A pos \in CoverPositions(game) :
                (coverCardOnTableTop(game, card, pos, Now) = [st |-> game', err |-> last'.err] /\ (pos >= Len(game.tableTop) \/ game.tableTop[pos + 1].cover # Null))
                    => (last'.err # Ok /\ game' = game)
       /\ \A i \in DOMAIN game.tableTop : \A j \in DOMAIN game'.tableTop :
            (game.tableTop[i].cover # Null /\ game'.tableTop[j].card = game.tableTop[i].card) => game'.tableTop[j].cover = game.tableTop[i].cover]_vars

\* The values of the cards on the table, attacking and covering.
RanksOnTable(g) == {parseCard(getTableTopDeck(g)[i]).value : i \in DOMAIN getTableTopDeck(g)}

\* What the rank rule asks of the outcome r of an attack on game g with a card
\* whose value is (matched) or is not on the table.
RankRule(g, r, matched) ==
    /\ (Len(g.tableTop) \in 1..(DeckSize - 1) /\ ~matched) => (r.err = ErrRankMismatch /\ r.st = g)
    /\ r.err = ErrRankMismatch => (g.tableTop # <<>> /\ ~matched)

TransferRule(g, r, name, card, next) ==
    /\ r.err = Ok =>
        /\ getCoveredCount(g) = 0
        /\ \A i \in DOMAIN g.tableTop : parseCard(g.tableTop[i].card).value = parseCard(card).value
        /\ next.err = Ok /\ Len(getPlayer(g, next.name).deck) >= Len(g.tableTop) + 1
        /\ Defenders(r.st) = {PlayerIndex(g, next.name)}
        /\ getPlayer(r.st, name).canAttack /\ getRoundStarter(r.st) = name
        /\ r.st.tableTop = Append(g.tableTop, [card |-> card, cover |-> Null])
        /\ Len(getActivePlayers(g)) >= 2 => ~getPlayer(r.st, name).isDefending
    /\ r.err # Ok => r.st = g

\* C20: an attack the defender makes with a card they hold succeeds only when
\* nothing on the table is covered, every attacking card has the card's rank
\* and the next player of the ring holds more cards than the table has
\* entries; it then leaves that player the one defender, the old defender the
\* attacker and round starter, and the card uncovered at the end of the table;
\* when it throws the game is unchanged.  With two or more active players the
\* old defender is no longer the defender.
DefenceTransfer ==
    \A i \in DOMAIN game.players : \A card \in Range(game.players[i].deck) :
        (game.players[i].isDefending /\ Allowed(Call("attack", game.players[i].name, card, 0)))
            => TransferRule(game, addCardToTableTop(game, game.players[i].name, card, Now), game.players[i].name, card, getPlayerNameByOffset(game, game.players[i].name, 1))

\* The active player k seats after `anchor` in the ring (k of any sign), by
\* the arithmetic of the integers: the remainder is never negative.
RingAt(g, anchor, k) == ActiveNames(g)[((IndexOf(ActiveNames(g), anchor) - 1 + k) % Len(ActiveNames(g))) + 1]

\* The hands, the elimination markers, the deck, the table and the victory flag.
Cards(g) == [hands |-> [i \in DOMAIN g.players |-> g.players[i].deck], outs |-> [i \in DOMAIN g.players |-> g.players[i].out], deck |-> g.deck, tableTop |-> g.tableTop, victory |-> g.victory]

\* What the claim asks of the outcome r of setDefendingPlayer(name) on game g.
DefenderAssigned(g, r, name) ==
    r.err = Ok =>
        /\ {r.st.players[i].name : i \in Defenders(r.st)} = {name}
        /\ {r.st.players[i].name : i \in {j \in DOMAIN r.st.players : r.st.players[j].canAttack}} = {RingAt(g, name, 0 - 1)}
        /\ {r.st.players[i].name : i \in {j \in DOMAIN r.st.players : r.st.players[j].beganRound}} = {RingAt(g, name, 0 - 1)}
        /\ \A i \in DOMAIN r.st.players : ~r.st.players[i].turned
        /\ PlayerNames(r.st) = PlayerNames(g)
        /\ Cards(r.st) = Cards(g)

\* C21: a setDefendingPlayer(name) call that returns leaves name the only
\* defender, the active player one seat before name in the ring the only
\* player who can attack and the only one who began the round, and nobody
\* turned; the hands, the deck, the table and the elimination markers stay.
AssignDefenderPostcondition ==
    \A name \in NameInputs :
        Allowed(Call("setDefendingPlayer", name, "", 0)) => DefenderAssigned(game, setDefendingPlayer(game, name), name)

\* The defence was reassigned by a call, in the middle of a round, in a ring
\* of more than two players.
AssignDefenderPostconditionWitness == last.op = "setDefendingPlayer" /\ last.err = Ok /\ game.tableTop # <<>> /\ Len(getActivePlayers(game)) > 2

\* The cards lying on the table, attacking and covering.
TableCards(g) == {g.tableTop[i].card : i \in DOMAIN g.tableTop} \cup ({g.tableTop[i].cover : i \in DOMAIN g.tableTop} \ {Null})

\* The names of the players marked as defending.
DefenderNames(g) == {g.players[i].name : i \in Defenders(g)}

\* The cards that the hand `after` holds beyond those of the hand `before`:
\* all of them if the old hand is not kept at its front.
Received(before, after) ==
    IF Len(after) >= Len(before) /\ SubSeq(after, 1, Len(before)) = before
    THEN {after[k] : k \in (Len(before) + 1)..Len(after)}
    ELSE Range(after)

\* What the claim asks of the outcome r of finaliseRound on game g.
Rotated(g, r) ==
    r.err = Ok =>
        /\ r.st.tableTop = <<>>
        /\ IF \E i \in DOMAIN g.tableTop : g.tableTop[i].cover = Null
           THEN /\ \A i \in Defenders(g) : TableCards(g) \subseteq Range(r.st.players[i].deck)
                /\ \A name \in DefenderNames(g) : DefenderNames(r.st) = {RingAt(g, name, 2)}
           ELSE /\ \A i \in DOMAIN r.st.players : Received(g.players[i].deck, r.st.players[i].deck) \cap TableCards(g) = {}
                /\ \A name \in DefenderNames(g) : DefenderNames(r.st) = {RingAt(g, name, 1)}

\* C22: when finaliseRound returns, the table is empty; if an entry was
\* uncovered, every card of the table is in the old defender's hand and the
\* defence is two seats further in the ring; if every entry was covered, no
\* hand receives a card of the table and the defence is one seat further.
RoundEndRotation ==
    Allowed(Call("finaliseRound", "", "", 0)) => Rotated(game, finaliseRound(game, Now))

\* A round was finalised by a call and the defender took the table.
RoundEndRotationWitness ==
    /\ last.op = "finaliseRound" /\ last.err = Ok /\ game.tableTop = <<>>
    /\ \E i \in DOMAIN game.players : Len(game.players[i].deck) > DeckSize

\* The hands and the deck after the players named in `order` have drawn in
\* turn, each up to DeckSize cards from the front of the deck.
RECURSIVE Refill(_, _)
Refill(t, order) ==
    IF order = <<>> \/ t.deck = <<>> THEN t
    ELSE Refill([hands |-> [t.hands EXCEPT ![Head(order)] = @ \o SubSeq(t.deck, 1, Min(DeckSize - Min(DeckSize, Len(@)), Len(t.deck)))],
                 deck |-> SubSeq(t.deck, Min(DeckSize - Min(DeckSize, Len(t.hands[Head(order)])), Len(t.deck)) + 1, Len(t.deck))],
                Tail(order))

\* The hands of game g by name once the table is cleared: the defender has
\* taken its cards if an entry was uncovered.
HandsAtRoundEnd(g) ==
    [name \in Range(PlayerNames(g)) |->
        IF name \in DefenderNames(g) /\ (\E i \in DOMAIN g.tableTop : g.tableTop[i].cover = Null)
        THEN getPlayer(g, name).deck \o getTableTopDeck(g)
        ELSE getPlayer(g, name).deck]

\* The ring of game g read from the player who began the round.
RingFrom(g, starter) == [k \in 1..Len(ActiveNames(g)) |-> RingAt(g, starter, k - 1)]

\* What the claim asks of the outcome r of finaliseRound on game g.
Replenished(g, r, starter) ==
    (Len(g.deck) > 0 /\ r.err = Ok) =>
        /\ [name \in Range(PlayerNames(g)) |-> getPlayer(r.st, name).deck] = Refill([hands |-> HandsAtRoundEnd(g), deck |-> g.deck], RingFrom(g, starter)).hands
        /\ r.st.deck = Refill([hands |-> HandsAtRoundEnd(g), deck |-> g.deck], RingFrom(g, starter)).deck
        /\ \A name \in Range(PlayerNames(g)) : Len(getPlayer(r.st, name).deck) >= Len(HandsAtRoundEnd(g)[name])
        /\ \A name \in Range(PlayerNames(g)) : Len(HandsAtRoundEnd(g)[name]) >= DeckSize => getPlayer(r.st, name).deck = HandsAtRoundEnd(g)[name]
        /\ r.st.deck = <<>> \/ \A name \in Range(ActiveNames(r.st)) : Len(getPlayer(r.st, name).deck) >= DeckSize

\* C23: when a round ends with cards in the deck, the active players draw in
\* ring order from the player who began the round, each one short of six
\* cards taking from the front of the deck up to six; no hand shrinks, a hand
\* of six or more draws nothing, and afterwards the deck is empty or every
\* active player holds six cards or more.
ReplenishmentOrder ==
    Allowed(Call("finaliseRound", "", "", 0)) =>
        \A i \in DOMAIN game.players : game.players[i].beganRound => Replenished(game, finaliseRound(game, Now), game.players[i].name)

\* A round was finalised by a call with cards left in the deck afterwards:
\* the defender who took the table drew nothing, the others hold six.
ReplenishmentOrderWitness ==
    /\ last.op = "finaliseRound" /\ last.err = Ok /\ game.deck # <<>> /\ game.tableTop = <<>>
    /\ \E i \in DOMAIN game.players : Len(game.players[i].deck) > DeckSize
    /\ \E i \in DOMAIN game.players : Len(game.players[i].deck) = DeckSize

\* The hands by name once the round of game g has ended and the hands are
\* replenished, the round having been begun by `starter`.
HandsAfterRefill(g, starter) == Refill([hands |-> HandsAtRoundEnd(g), deck |-> g.deck], RingFrom(g, starter)).hands

\* The active players of game g left without a card by the replenishment.
EmptyHanded(g, starter) == {name \in Range(ActiveNames(g)) : HandsAfterRefill(g, starter)[name] = <<>>}

\* What the claim asks of the outcome r of finaliseRound on game g.
Swept(g, r, starter) ==
    (~g.victory /\ g.tableTop # <<>> /\ EmptyHanded(g, starter) # {}) =>
        /\ r.err = Ok
        /\ \A name \in EmptyHanded(g, starter) : getPlayer(r.st, name).out # NotOut
        /\ r.st.victory <=> \A name \in Range(ActiveNames(g)) \ DefenderNames(r.st) : getPlayer(r.st, name).out # NotOut

\* C24: a round finalised while an active player is left without a card
\* after the replenishment is finalised without error, marks that player as
\* eliminated, and sets victory exactly when every active player other than
\* the new defender is eliminated.
EliminationSweep ==
    /\ Allowed(Call("finaliseRound", "", "", 0)) =>
        \A i \in DOMAIN game.players : game.players[i].beganRound /\ game.players[i].out = NotOut => Swept(game, finaliseRound(game, Now), game.players[i].name)
    /\ ~game.victory =>
        \A card \in CoverCards(game) : \A pos \in 0..(Len(game.tableTop) - 1) :
            (/\ Allowed(Call("cover", "", card, pos))
             /\ game.tableTop[pos + 1].cover = Null
             /\ Beats(card, game.tableTop[pos + 1].card, game.trumpCard.suit)
             /\ getPlayer(Covered(game, card, pos), getDefendingPlayerName(game)).deck = <<>>)
                => \A i \in DOMAIN game.players : game.players[i].beganRound /\ game.players[i].out = NotOut =>
                    Swept(Covered(game, card, pos), coverCardOnTableTop(game, card, pos, Now), game.players[i].name)

\* The table of game g holds exactly four entries, none covered, of one rank.
FourOfARank(g) ==
    /\ Len(g.tableTop) = 4
    /\ \A i \in DOMAIN g.tableTop : g.tableTop[i].cover = Null
    /\ \A i, j \in DOMAIN g.tableTop : parseCard(g.tableTop[i].card).value = parseCard(g.tableTop[j].card).value

\* C25: when the defender declares their turn done on a table of exactly four
\* entries, none covered and all of one rank, the round is finalised within
\* the call as a forfeit: the table is empty and its cards are in the
\* defender's hand, whoever else has declared and whatever the size of the
\* defender's hand.
FourOfARankForfeit ==
    (~game.victory /\ FourOfARank(game)) =>
        \A name \in DefenderNames(game) :
            (Allowed(Call("finalisePlayerTurn", name, "", 0)) /\ getPlayer(game, name).out = NotOut) =>
                /\ finalisePlayerTurn(game, name, Now).st.tableTop = <<>>
                /\ TableCards(game) \subseteq Range(getPlayer(finalisePlayerTurn(game, name, Now).st, name).deck)

\* The active players of game g who have declared their turn done once `name` has.
TurnedWith(g, name) == {n \in Range(ActiveNames(g)) : getPlayer(g, n).turned \/ n = name}

\* The three conditions under which a declaration by `name` ends the round.
EveryoneDone(g, name) == TurnedWith(g, name) = Range(ActiveNames(g))

DefenderDone(g, name) ==
    /\ name \in DefenderNames(g)
    /\ \/ Len(g.tableTop) = DeckSize
       \/ Len(g.tableTop) - getCoveredCount(g) = Len(getPlayer(g, name).deck)
       \/ FourOfARank(g)

AttackersDone(g, name) ==
    /\ Range(ActiveNames(g)) \ DefenderNames(g) \subseteq TurnedWith(g, name)
    /\ \A i \in DOMAIN g.tableTop : g.tableTop[i].cover # Null

\* What the claim asks of the outcome r of finalisePlayerTurn(name) on game g.
DefenceHeld(g, r, name) ==
    /\ AttackersDone(g, name) =>
        /\ r.st.tableTop = <<>>
        /\ \A d \in DefenderNames(g) : DefenderNames(r.st) = {RingAt(g, d, 1)}
    /\ (~EveryoneDone(g, name) /\ ~DefenderDone(g, name) /\ ~AttackersDone(g, name)) =>
        /\ r.st.tableTop = g.tableTop
        /\ DefenderNames(r.st) = DefenderNames(g)

\* C26: a declaration made when every active player but the defender has
\* declared and every entry of the table is covered finalises the round within
\* the call, so that the table is empty and the defence one seat further in
\* the ring; a declaration that meets none of the three conditions leaves the
\* table and the defender as they were.
DefenceAutoFinalise ==
    (~game.victory /\ game.tableTop # <<>>) =>
        \A name \in Range(PlayerNames(game)) :
            Allowed(Call("finalisePlayerTurn", name, "", 0)) => DefenceHeld(game, finalisePlayerTurn(game, name, Now), name)

\* The names of the players of game g who can attack.
Attackers(g) == {g.players[i].name : i \in {j \in DOMAIN g.players : g.players[j].canAttack}}

\* `name` is the defender of game g or the active player one seat before them.
LeadsRound(g, name) ==
    \/ name \in DefenderNames(g)
    \/ \E d \in DefenderNames(g) \cap Range(ActiveNames(g)) : name = RingAt(g, d, 0 - 1)

\* What the claim asks of the outcome r of finalisePlayerTurn(name) on game g.
Granted(g, r, name) ==
    r.st.tableTop = g.tableTop =>
        /\ getPlayer(r.st, name).turned
        /\ LeadsRound(g, name) => Range(ActiveNames(g)) \ DefenderNames(g) \subseteq Attackers(r.st)
        /\ ~LeadsRound(g, name) => Attackers(r.st) = Attackers(g)
        /\ Attackers(r.st) \cap DefenderNames(g) = Attackers(g) \cap DefenderNames(g)

\* C27: a declaration by `name` that does not finalise the round marks name
\* as turned; made by the defender or by the active player one seat before
\* them, it leaves every active player but the defender able to attack; made
\* by anyone else it changes nobody's canAttack; the defender's canAttack is
\* not set by it.
AttackGrant ==
    (~game.victory /\ game.tableTop # <<>>) =>
        \A name \in Range(PlayerNames(game)) :
            Allowed(Call("finalisePlayerTurn", name, "", 0)) => Granted(game, finalisePlayerTurn(game, name, Now), name)

\* The role flags of the players of game g, the declarations apart.
Roles(g) == [i \in DOMAIN g.players |-> [canAttack |-> g.players[i].canAttack, beganRound |-> g.players[i].beganRound, isDefending |-> g.players[i].isDefending]]

\* What the claim asks of the outcome r of a cover on game g.
DeclarationsReset(g, r) ==
    (r.err = Ok /\ Len(r.st.tableTop) = Len(g.tableTop)) =>
        /\ \A i \in DOMAIN g.players : (g.players[i].out = NotOut /\ i \notin Defenders(g)) => ~r.st.players[i].turned
        /\ \A i \in Defenders(g) : r.st.players[i].turned = g.players[i].turned
        /\ Roles(r.st) = Roles(g)
        /\ r.st.deck = g.deck
        /\ \A i \in DOMAIN g.players \ Defenders(g) : r.st.players[i].deck = g.players[i].deck

\* C28: a cover that succeeds without finalising the round withdraws the
\* declaration of every active player other than the defender, and leaves the
\* defender's own declaration, every canAttack, beganRound and isDefending
\* flag, the deck and the hands of the other players as they were.
CoverResetsDeclarations ==
    (~game.victory /\ game.tableTop # <<>>) =>
        \A card \in CoverCards(game) : \A pos \in 0..(Len(game.tableTop) - 1) :
            Allowed(Call("cover", "", card, pos)) => DeclarationsReset(game, coverCardOnTableTop(game, card, pos, Now))

\* The offsets asked of the ring: from MaxOffset seats back to MaxOffset seats on.
MaxOffset == 4

Offsets == (0 - MaxOffset)..MaxOffset

\* C29: for every active player and every offset k, positive, zero or
\* negative of any magnitude, getPlayerNameByOffset returns the active player
\* whose place in the ring is the anchor's place plus k modulo the number of
\* active players, taken in the range from zero; for a name that is
\* eliminated or unknown it fails with the player-not-in-ring error.
RingArithmetic ==
    \A name \in NameInputs : \A k \in Offsets :
        getPlayerNameByOffset(game, name, k) =
            IF name \in Range(ActiveNames(game)) THEN [err |-> Ok, name |-> RingAt(game, name, k)]
            ELSE [err |-> ErrNotInLobby, name |-> Undefined]

\* The card on top of the shuffled deck once six cards have been dealt to
\* each player of the constructor call.
TopAfterDeal == ctor.shuffled[DeckSize * Len(ctor.players) + 1]

\* C30: the trump card is the one revealed at construction and never
\* changes, and whenever the deck is not empty its last element is the label
\* of the trump card.
TrumpDrawnLast ==
    /\ game.trumpCard = [value |-> parseCard(TopAfterDeal).value, suit |-> parseCard(TopAfterDeal).suit, card |-> TopAfterDeal]
    /\ game.deck # <<>> => game.deck[Len(game.deck)] = game.trumpCard.card

\* Cards have been drawn from the deck at the end of a round, and some are left.
TrumpDrawnLastWitness ==
    /\ last.op = "finaliseRound" /\ last.err = Ok
    /\ game.deck # <<>>
    /\ Len(game.deck) < Len(generateCardDeck) - DeckSize * Len(game.players)

\* The number of entries of the table of game g that are not covered.
Uncovered(g) == Cardinality({i \in DOMAIN g.tableTop : g.tableTop[i].cover = Null})

\* What the claim asks of the outcome r of addCardToTableTop.
WithinDefence(r) == r.err = Ok => \A i \in Defenders(r.st) : Uncovered(r.st) <= Len(r.st.players[i].deck)

\* C31: after an addCardToTableTop that succeeds, the table holds no more
\* uncovered cards than the defending player holds cards; an attack that
\* would exceed the defender's hand is rejected.
AttackWithinDefence ==
    ~game.victory =>
        \A name \in NameInputs : \A card \in HandOf(game, name) :
            Allowed(Call("attack", name, card, 0)) => WithinDefence(addCardToTableTop(game, name, card, Now))

\* The player `name` began the round of game g and plays their last card
\* with no card left in the deck.
StarterPlaysOut(g, name, card) ==
    /\ ~g.victory /\ g.deck = <<>> /\ HasPlayer(g, name)
    /\ getPlayer(g, name).beganRound /\ getPlayer(g, name).out = NotOut /\ ~getPlayer(g, name).isDefending
    /\ getPlayer(g, name).deck = <<card>>

\* What the claim asks of the outcome r of that call.
AttackOpened(r, name) ==
    (r.err = Ok /\ ~r.st.victory) =>
        /\ getPlayer(r.st, name).out # NotOut
        /\ Range(ActiveNames(r.st)) \ DefenderNames(r.st) \subseteq Attackers(r.st)

\* C32: when the player who began the round as attacker places their last
\* card with the deck empty, and is thereby eliminated without the game being
\* won, every player still active other than the defender can attack when the
\* call returns.
StarterExitOpensAttack ==
    \A name \in NameInputs : \A card \in HandOf(game, name) :
        (Allowed(Call("attack", name, card, 0)) /\ StarterPlaysOut(game, name, card)) => AttackOpened(addCardToTableTop(game, name, card, Now), name)

\* C33: in every state between two calls, whether the last call returned or
\* threw, a game with at most one player still active is won.
NoStuckEnd == Len(getActivePlayers(game)) <= 1 => game.victory

\* The players of game g marked as eliminated.
Eliminated(g) == {i \in DOMAIN g.players : g.players[i].out # NotOut}

\* C34: whenever a player is marked eliminated the deck is empty; so while
\* there are cards to draw the player who began the round, from whom the
\* replenishment starts, is not eliminated, nor is any player it visits.
EliminationAfterDeck ==
    /\ Eliminated(game) # {} => game.deck = <<>>
    /\ game.deck # <<>> => \A i \in DOMAIN game.players : game.players[i].beganRound => game.players[i].out = NotOut

\* A player has been eliminated by a call that returned, in a game not won.
EliminationAfterDeckWitness == Eliminated(game) # {} /\ game.deck = <<>> /\ last.err = Ok /\ ~game.victory

\* C35: every eliminated player has an empty hand and is not the defender;
\* no operation adds a card to the hand of an eliminated player or makes
\* them the defender.
EliminatedHoldNothing == \A i \in Eliminated(game) : game.players[i].deck = <<>> /\ ~game.players[i].isDefending

\* The hands of the players, one after the other.
RECURSIVE AllHands(_)
AllHands(players) == IF players = <<>> THEN <<>> ELSE Head(players).deck \o AllHands(Tail(players))

\* Every card of game g, place by place: the deck, the hands, the table.
Everywhere(g) == g.deck \o AllHands(g.players) \o getTableTopDeck(g)

\* C36: no card is in two places: the deck, the hands, the attacking cards
\* of the table and the cards that cover them are pairwise disjoint, and no
\* label is repeated within any of them.
NoCardTwice == Cardinality(Range(Everywhere(game))) = Len(Everywhere(game))

\* The errors with which finaliseRound refuses to run on a game that is won
\* or whose table is empty. A declaration is accepted only on a game not won
\* with cards on the table, so that its outcome carries one of them only if
\* finaliseRound was attempted again after a first finalisation.
Refusals == {ErrVictory, ErrNotFinalisable}

\* C37: a single declaration, made by a call or within the attack that
\* eliminates the attacker, runs finaliseRound at most once: after a
\* finalisation it triggered it does not attempt another, and so does not
\* fail with the refusal of finaliseRound, whatever the size of the ring.
OneFinalisation ==
    (~game.victory /\ game.tableTop # <<>>) =>
        /\ \A name \in Range(PlayerNames(game)) :
            Allowed(Call("finalisePlayerTurn", name, "", 0)) => finalisePlayerTurn(game, name, Now).err \notin Refusals
        /\ \A name \in Range(PlayerNames(game)) : \A card \in HandOf(game, name) :
            (Allowed(Call("attack", name, card, 0)) /\ Len(game.tableTop) < DeckSize) => addCardToTableTop(game, name, card, Now).err \notin Refusals

\* The label of the card of a rank (2 to 14) and a suit, as generateCardDeck writes it.
Encode(value, suit) == CardNumerics[value - 1] \o suit

\* C38: generateCardDeck yields 52 distinct labels, one for each rank and
\* suit, rank by rank in the order of the suits; parseCard of a label made of
\* a numeric and a suit succeeds with a rank from 2 to 14 and one of the four
\* suits that encode back to the label, and parseCard of a label whose
\* numeric or suit part is not recognised fails.
CodecRoundTrip ==
    /\ Len(generateCardDeck) = 52 /\ ~HasDuplicates(generateCardDeck)
    /\ \A value \in 2..14 : \A k \in DOMAIN CardSuits : generateCardDeck[(value - 2) * Len(CardSuits) + k] = Encode(value, CardSuits[k])
    /\ last.op = "parseCard" =>
        IF ctor.numeric \in Range(CardNumerics) /\ ctor.suit \in Range(CardSuits)
        THEN /\ last.err = Ok
             /\ ctor.label \in Range(generateCardDeck)
             /\ snap.card.value \in 2..14 /\ snap.card.suit \in Range(CardSuits)
             /\ Encode(snap.card.value, snap.card.suit) = ctor.label
        ELSE last.err \in {ErrCardSuit, ErrCardNumeric}

\* The ten of hearts, whose numeric has two characters, has been parsed.
CodecRoundTripWitness == last.op = "parseCard" /\ last.err = Ok /\ ctor.label = "10H" /\ snap.card.value = 10 /\ snap.card.suit = "H"

\* C39: addEntry on a history without nodes throws InvalidHistoryState and
\* leaves the history as it was; on a history with nodes it returns, keeps
\* the number of nodes, every node before the last and the last node's flag
\* and earlier actions, and puts the action at the end of the last node;
\* getLastNode is null exactly when the history has no nodes.
LastNodeNullIffEmpty(h) == (getLastNode(h) = NoNode) <=> (Len(h.nodes) = 0)

Appended(before, after) ==
    /\ Len(after.nodes) = Len(before.nodes)
    /\ \A i \in 1..(Len(before.nodes) - 1) : after.nodes[i] = before.nodes[i]
    /\ after.nodes[Len(after.nodes)].finalised = before.nodes[Len(before.nodes)].finalised
    /\ \E action \in Recorded :
           after.nodes[Len(after.nodes)].actions
               = before.nodes[Len(before.nodes)].actions \o <<action>>

HistoryAppendContract ==
    [][ /\ LastNodeNullIffEmpty(history) /\ LastNodeNullIffEmpty(history')
        /\ last'.op = "addEntry" =>
              IF Len(history.nodes) = 0
              THEN last'.err = ErrNoNodes /\ history' = history
              ELSE last'.err = Ok /\ Appended(history, history') ]_vars

HistoryAppendContractWitness ==
    /\ last = [op |-> "addEntry", err |-> Ok]
    /\ Len(history.nodes) >= 2
    /\ Len(history.nodes[1].actions) >= 1
    /\ Len(history.nodes[Len(history.nodes)].actions) >= 2

HistoryAppendRefusedWitness ==
    /\ last = [op |-> "addEntry", err |-> ErrNoNodes]
    /\ history = NoHistory

\* C40: in a history that started without nodes, every node except the
\* last is finalised and the last node is not, so the node addEntry adds to
\* is never a finalised one.
NeverAppendsToClosedNode ==
    /\ \A i \in 1..(Len(history.nodes) - 1) : history.nodes[i].finalised
    /\ Len(history.nodes) > 0 => ~history.nodes[Len(history.nodes)].finalised


====
